---- MODULE Spec2Model ----
(***************************************************************************)
(* A model of the destructible terrain of tic80-land-generator             *)
(* (src/src/land.rs, driven by src/src/lib.rs).                            *)
(*                                                                         *)
(* The terrain lives in the host's MAP memory, a grid of 240 x 136 byte    *)
(* cells.  Nine cells of row 0 hold the header; from linear address 16 on, *)
(* every 8x8 chunk owns 8 consecutive cells, one byte per pixel row.       *)
(*                                                                         *)
(* Rust's i32 arithmetic is modelled with its width (wrapping products and *)
(* sums), `/` and `%` truncate toward zero, a u64 mask is the sequence of  *)
(* its 8 bytes (most significant first), and f64 values of the generator   *)
(* are fixed-point numbers in thousandths.                                 *)
(***************************************************************************)
EXTENDS Integers, Sequences, FiniteSets, TLC

VARIABLES store, land, op, prevOp, prevStore, prevLand, steps

vars == <<store, land, op, prevOp, prevStore, prevLand, steps>>

(***************************************************************************)
(* Program constants                                                       *)
(***************************************************************************)
LAND_CHUNK_ADDR_RESERVE == 16

MAP_WIDTH == 240

MAP_SIZE == 32640

MAP_HEIGHT == MAP_SIZE \div MAP_WIDTH

(***************************************************************************)
(* i32 arithmetic.  A value is an integer in -2^31 .. 2^31-1; products and *)
(* sums wrap modulo 2^32 (the release profile; the debug profile panics    *)
(* where the result differs from the exact one).  The wrapped value is     *)
(* computed on 16-bit halves so that no intermediate leaves 32 bits.       *)
(***************************************************************************)
Lo16(a) == a % 65536

Hi16(a) == ((a - Lo16(a)) \div 65536) % 65536

FromHalves(hi, lo) ==
    IF hi >= 32768 THEN (hi - 65536) * 65536 + lo ELSE hi * 65536 + lo

\* p * q modulo 2^16, for p, q in 0 .. 65535
MulMod16(p, q) == (p * (q % 256) + ((p * (q \div 256)) % 256) * 256) % 65536

Small(a) == a > -32768 /\ a < 32768

MulI32(a, b) ==
    IF Small(a) /\ Small(b) THEN a * b
    ELSE LET al == Lo16(a)
             ah == Hi16(a)
             bl == Lo16(b)
             bh == Hi16(b)
             y  == al * (bl % 256)
             x  == al * (bl \div 256)
             lo == (y % 65536) + (x % 256) * 256
             hi == (y \div 65536) + (x \div 256) + (lo \div 65536)
                     + MulMod16(ah, bl) + MulMod16(al, bh)
         IN  FromHalves(hi % 65536, lo % 65536)

AddI32(a, b) ==
    IF a > -1000000000 /\ a < 1000000000 /\ b > -1000000000 /\ b < 1000000000
    THEN a + b
    ELSE LET lo == Lo16(a) + Lo16(b)
             hi == Hi16(a) + Hi16(b) + (lo \div 65536)
         IN  FromHalves(hi % 65536, lo % 65536)

\* a - b = a + ~b + 1
SubI32(a, b) ==
    IF a > -1000000000 /\ a < 1000000000 /\ b > -1000000000 /\ b < 1000000000
    THEN a - b
    ELSE AddI32(AddI32(a, FromHalves(65535 - Hi16(b), 65535 - Lo16(b))), 1)

\* Rust's `/` and `%` on i32, for a positive divisor: truncation toward zero
Quot(a, b) == IF a >= 0 THEN a \div b ELSE -((-a) \div b)

Rem(a, b) == a - b * Quot(a, b)

Min(a, b) == IF a < b THEN a ELSE b

Pow2(n) == 2 ^ n

\* bit x of the byte val: ((val >> x) & 1) != 0
Bit(val, x) == (val \div Pow2(x)) % 2 = 1

(***************************************************************************)
(* The host's MAP memory (tic80 mget / mset).  Only the non-zero cells are *)
(* kept, so equal contents are equal values.  A read outside the grid      *)
(* yields 0, a write outside the grid is dropped, a cell holds one byte.   *)
(***************************************************************************)
EmptyStore == [c \in {} |-> 0]

\* The loops below are sequential: an iteration's store is computed in full
\* before the next iteration starts (Done is TRUE of every store).
Done(st) == st = st

InMap(x, y) == x >= 0 /\ x < MAP_WIDTH /\ y >= 0 /\ y < MAP_HEIGHT

mget(st, x, y) == IF <<x, y>> \in DOMAIN st THEN st[<<x, y>>] ELSE 0

mset(st, x, y, val) ==
    LET b == val % 256
    IN  IF ~InMap(x, y) THEN st
        ELSE IF b = 0 THEN [c \in DOMAIN st \ {<<x, y>>} |-> st[c]]
        ELSE (<<x, y>> :> b) @@ st

(***************************************************************************)
(* LandChunk: a view of 8 consecutive cells (map_x + 0..7, map_y)          *)
(***************************************************************************)
LandChunk(map_x, map_y) == [some |-> TRUE, map_x |-> map_x, map_y |-> map_y]

None == [some |-> FALSE, map_x |-> 0, map_y |-> 0]

ChunkGet(st, ch, x, y) == Bit(mget(st, ch.map_x + y, ch.map_y), x)

\* a faulty variant of LandChunk::set: the row byte is overwritten, not
\* updated; SetThenGet rejects it
ChunkSetWholeRow(st, ch, x, y, state) ==
    mset(st, ch.map_x + y, ch.map_y, IF state THEN Pow2(x) ELSE 0)

ChunkSet(st, ch, x, y, state) ==
    LET val == mget(st, ch.map_x + y, ch.map_y)
        new == IF state
               THEN (IF Bit(val, x) THEN val ELSE val + Pow2(x))
               ELSE (IF Bit(val, x) THEN val - Pow2(x) ELSE val)
    IN  mset(st, ch.map_x + y, ch.map_y, new)

\* A u64 is <<b1, ..., b8>>, b1 the most significant byte.
ZeroMask == <<0, 0, 0, 0, 0, 0, 0, 0>>

FullMask == <<255, 255, 255, 255, 255, 255, 255, 255>>

\* (mask << 8) | val
ShlOr(mask, val) == Tail(mask) \o <<val>>

\* mask >> 8
Shr8(mask) == <<0>> \o SubSeq(mask, 1, 7)

\* mask & 0xff
LowByte(mask) == mask[8]

RECURSIVE GetMaskLoop(_, _, _, _)
GetMaskLoop(st, ch, i, mask) ==
    IF i >= 8 THEN mask
    ELSE GetMaskLoop(st, ch, i + 1, ShlOr(mask, mget(st, ch.map_x + i, ch.map_y)))

ChunkGetMask(st, ch) == GetMaskLoop(st, ch, 0, ZeroMask)

RECURSIVE SetMaskLoop(_, _, _, _)
SetMaskLoop(st, ch, i, mask) ==
    IF i >= 8 THEN st
    ELSE LET s1 == mset(st, ch.map_x + i, ch.map_y, LowByte(mask))
         IN  IF Done(s1) THEN SetMaskLoop(s1, ch, i + 1, Shr8(mask)) ELSE st

ChunkSetMask(st, ch, mask) == SetMaskLoop(st, ch, 0, mask)

ChunkEmpty(st, ch) == ChunkGetMask(st, ch) = ZeroMask

ChunkFull(st, ch) == ChunkGetMask(st, ch) = FullMask

(***************************************************************************)
(* LandTexture and Land                                                    *)
(***************************************************************************)
LandTexture(spr_id, width, height) ==
    [spr_id |-> spr_id, width |-> width, height |-> height]

\* lib.rs: LAND_TEXTURE
LAND_TEXTURE == LandTexture(1, 2, 2)

\* (a | b) & 0xff, bit by bit; mset keeps only that byte of (width << 4) | height
RECURSIVE BitOr8Loop(_, _, _)
BitOr8Loop(a, b, i) ==
    IF i >= 8 THEN 0
    ELSE (IF Bit(a, i) \/ Bit(b, i) THEN Pow2(i) ELSE 0) + BitOr8Loop(a, b, i + 1)

BitOr8(a, b) == BitOr8Loop(a % 256, b % 256, 0)

\* byte i (0 = least significant) of a u32: ((seed >> (i * 8)) as i32) & 0xff
SeedByte(seed, i) == (seed \div (256 ^ i)) % 256

\* a faulty variant of the seed loop of save_in_map: least significant byte
\* first, the order from_map does not read; SaveLoadRoundTrip rejects it
RECURSIVE SaveSeedLoopReversed(_, _, _)
SaveSeedLoopReversed(st, seed, i) ==
    IF i >= 4 THEN st
    ELSE LET s1 == mset(st, 2 + i, 0, SeedByte(seed, i))
         IN  IF Done(s1) THEN SaveSeedLoopReversed(s1, seed, i + 1) ELSE st

RECURSIVE SaveSeedLoop(_, _, _)
SaveSeedLoop(st, seed, i) ==
    IF i >= 4 THEN st
    ELSE LET s1 == mset(st, 5 - i, 0, SeedByte(seed, i))
         IN  IF Done(s1) THEN SaveSeedLoop(s1, seed, i + 1) ELSE st

save_in_map(st, l) ==
    LET s1 == mset(st, 0, 0, l.width % 256)
        s2 == mset(s1, 1, 0, l.height % 256)
        s3 == SaveSeedLoop(s2, l.seed, 0)
        texture_size == BitOr8(MulI32(l.texture.width, 16), l.texture.height)
        flags == IF l.covered THEN 1 ELSE 0
        s4 == mset(s3, 6, 0, l.texture.spr_id)
        s5 == mset(s4, 7, 0, texture_size)
    IN  mset(s5, 8, 0, flags)

\* the assertion of Land::new, in i32
NewAccepts(width, height) ==
    AddI32(MulI32(MulI32(width, height), 8), LAND_CHUNK_ADDR_RESERVE) <= MAP_SIZE

WaterHeight(height) == SubI32(MulI32(height, 8), 8)

NewLand(width, height, texture) ==
    [width |-> width, height |-> height, texture |-> texture,
     water_height |-> WaterHeight(height), seed |-> 0, covered |-> FALSE]

RECURSIVE LoadSeedLoop(_, _, _)
LoadSeedLoop(st, i, seed) ==
    IF i >= 4 THEN seed
    ELSE LoadSeedLoop(st, i + 1, seed * 256 + mget(st, 2 + i, 0))

from_map(st) ==
    LET height == mget(st, 1, 0)
    IN  [width |-> mget(st, 0, 0), height |-> height,
         texture |-> LandTexture(mget(st, 6, 0), mget(st, 7, 0) \div 16,
                                 mget(st, 7, 0) % 16),
         water_height |-> WaterHeight(height),
         seed |-> LoadSeedLoop(st, 0, 0),
         covered |-> (mget(st, 8, 0) % 2) # 0]

\* the branch of from_map_or_new
MapInvalid(st) == mget(st, 0, 0) = 0 \/ mget(st, 1, 0) = 0

size(l) == <<MulI32(l.width, 8), MulI32(l.height, 8)>>

\* a faulty variant of in_bounds: the upper limits included;
\* OutOfBoundsIgnored rejects it
in_bounds_inclusive(l, x, y) ==
    (x >= 0 /\ x <= MulI32(l.width, 8)) /\ (y >= 0 /\ y <= MulI32(l.height, 8))

in_bounds(l, x, y) ==
    (x >= 0 /\ x < MulI32(l.width, 8)) /\ (y >= 0 /\ y < MulI32(l.height, 8))

\* a faulty variant of the address computation: rows of height chunks;
\* ChunksDisjoint rejects it
ChunkAddrByHeight(l, chunk_x, chunk_y) ==
    AddI32(LAND_CHUNK_ADDR_RESERVE,
           MulI32(AddI32(MulI32(chunk_y, l.height), chunk_x), 8))

ChunkAddr(l, chunk_x, chunk_y) ==
    AddI32(LAND_CHUNK_ADDR_RESERVE,
           MulI32(AddI32(MulI32(chunk_y, l.width), chunk_x), 8))

chunk(l, x, y) ==
    LET chunk_x == Quot(x, 8)
        chunk_y == Quot(y, 8)
    IN  IF in_bounds(l, x, y)
        THEN LET addr == ChunkAddr(l, chunk_x, chunk_y)
             IN  LandChunk(Rem(addr, MAP_WIDTH), Quot(addr, MAP_WIDTH))
        ELSE None

get(st, l, x, y) ==
    LET ch == chunk(l, x, y)
    IN  IF ch.some THEN ChunkGet(st, ch, Rem(x, 8), Rem(y, 8)) ELSE l.covered

set(st, l, x, y, state) ==
    LET ch == chunk(l, x, y)
    IN  IF ch.some THEN ChunkSet(st, ch, Rem(x, 8), Rem(y, 8), state) ELSE st

\* (-r..r).cartesian_product(-r..r), the k-th pair (k from 0), first index slowest
RECURSIVE SetCircleLoop(_, _, _, _, _, _, _)
SetCircleLoop(st, l, x, y, r, state, k) ==
    IF r <= 0 \/ k >= (2 * r) * (2 * r) THEN st
    ELSE LET i == -r + (k \div (2 * r))
             j == -r + (k % (2 * r))
             s1 == IF i * i + j * j <= r * r
                   THEN set(st, l, x + i, y + j, state)
                   ELSE st
         IN  IF Done(s1) THEN SetCircleLoop(s1, l, x, y, r, state, k + 1) ELSE st

set_circle(st, l, x, y, r, state) == SetCircleLoop(st, l, x, y, r, state, 0)

\* (0..n).step_by(8) has this many items
StepBy8Count(n) == IF n <= 0 THEN 0 ELSE (n + 7) \div 8

chunk_coordinates(l) ==
    LET nx == StepBy8Count(MulI32(l.width, 8))
        ny == StepBy8Count(MulI32(l.height, 8))
    IN  [k \in 1 .. (nx * ny) |-> <<8 * ((k - 1) \div ny), 8 * ((k - 1) % ny)>>]

RECURSIVE ClearLoop(_, _, _, _)
ClearLoop(st, l, coords, k) ==
    IF k > Len(coords) THEN st
    ELSE LET ch == chunk(l, coords[k][1], coords[k][2])
             s1 == IF ch.some THEN ChunkSetMask(st, ch, ZeroMask) ELSE st
         IN  IF Done(s1) THEN ClearLoop(s1, l, coords, k + 1) ELSE st

\* a faulty variant of clear: nothing is erased; GenerateIgnoresPast rejects it
clear_nothing(st, l) == st

clear(st, l) == ClearLoop(st, l, chunk_coordinates(l), 1)

(***************************************************************************)
(* The generator.  f64 values are integers in thousandths.  The noise      *)
(* crate is outside the repository: Simplex::new(seed).get(point) is a     *)
(* fixed function of the seed and the point with values in [-1, 1]; the    *)
(* model takes one such function, which reaches both ends of the range.    *)
(***************************************************************************)
NoiseLevels == <<-1000, -500, 0, 500, 1000>>

Noise(seed, px, py) ==
    NoiseLevels[(((seed % 1009) * 3 + px + 2 * py) % Len(NoiseLevels)) + 1]

\* 1000 / (1 + e^(-t/1000)) at t = 0, 500, ..., 6000
SigmoidTab == <<500, 622, 731, 818, 881, 924, 953, 971, 982, 989, 993, 996, 998>>

SigmoidPos(t) == IF t >= 6000 THEN 998 ELSE SigmoidTab[(t \div 500) + 1]

sigmoid(t) == IF t >= 0 THEN SigmoidPos(t) ELSE 1000 - SigmoidPos(-t)

board_constrain(x, board_w) ==
    IF x < board_w
    THEN LET dx == 6 * ((x * 1000) \div board_w)
         IN  sigmoid(dx) * 2 - 1000
    ELSE IF x > 1000 - board_w
    THEN LET dx == 6 * (((1000 - x) * 1000) \div board_w)
         IN  sigmoid(dx) * 2 - 1000
    ELSE 1000

\* the first row the column x is filled from: min(h as i32, land_h - 1)
ColumnStart(l, x) ==
    LET land_w == size(l)[1]
        land_h == size(l)[2]
        land_h_f64 == SubI32(l.water_height, 2)
        x_norm == (x * 1000) \div land_w
        k1 == 3000 + Noise(l.seed, 2000, -1000)
        k2 == 5000 + Noise(l.seed, -1000, 2000)
        px == (x_norm * k1) \div 1000
        py == (x_norm * k2) \div 1000
        h0 == 400 + (250 * (Noise(l.seed, px, py) + 1000)) \div 1000
        board_w == 100 + (100 * Noise(l.seed, 1000, -1000)) \div 1000
        constrain == board_constrain(x_norm, board_w)
        h == land_h_f64 * (1000 - (h0 * constrain) \div 1000)
    IN  Min(Quot(h, 1000), land_h - 1)

\* a faulty variant of the column fill: it stops at the generation budget
\* water_height - 2; GeneratedColumnsSolid rejects it
RECURSIVE FillColumnToBudget(_, _, _, _, _)
FillColumnToBudget(st, l, x, y, land_h) ==
    IF y >= l.water_height - 2 THEN st
    ELSE LET s1 == set(st, l, x, y, TRUE)
         IN  IF Done(s1) THEN FillColumnToBudget(s1, l, x, y + 1, land_h) ELSE st

\* for y in y..land_h { self.set(x, y, true) }
RECURSIVE FillColumn(_, _, _, _, _)
FillColumn(st, l, x, y, land_h) ==
    IF y >= land_h THEN st
    ELSE LET s1 == set(st, l, x, y, TRUE)
         IN  IF Done(s1) THEN FillColumn(s1, l, x, y + 1, land_h) ELSE st

\* for x in x..land_w { ... }
RECURSIVE GenerateLoop(_, _, _)
GenerateLoop(st, l, x) ==
    IF x >= size(l)[1] THEN st
    ELSE LET s1 == FillColumn(st, l, x, ColumnStart(l, x), size(l)[2])
         IN  IF Done(s1) THEN GenerateLoop(s1, l, x + 1) ELSE st

generate(st, l) == GenerateLoop(clear(st, l), l, 0)

(***************************************************************************)
(* State: the MAP memory, the terrain object, and a record of the last two *)
(* operations with the state the last one started from.                    *)
(***************************************************************************)
Op(kind, x, y, r, s) ==
    [kind |-> kind, x |-> x, y |-> y, r |-> r, s |-> s,
     mask |-> ZeroMask, ret |-> None]

\* what every operation records of the state it started from
Step(o) ==
    /\ steps' = steps + 1
    /\ op' = o
    /\ prevOp' = op
    /\ prevStore' = store
    /\ prevLand' = land

\* a texture whose fields do not fit the header's byte and nibbles
WideTexture == LandTexture(256, 16, 2)

\* seeds are u32; the model draws them below 2^31
Seeds == {1, 16909060}

FromMapOrNewLand(st, width, height, texture) ==
    IF MapInvalid(st) THEN NewLand(width, height, texture) ELSE from_map(st)

FromMapOrNewStore(st, width, height, texture) ==
    IF MapInvalid(st)
    THEN save_in_map(st, NewLand(width, height, texture))
    ELSE st

\* lib.rs boot(): a terrain with seed 0 is seeded (tstamp), generated and saved
BootLand(l, seed) == IF l.seed = 0 THEN [l EXCEPT !.seed = seed] ELSE l

BootStore(st, l, seed) ==
    IF l.seed = 0
    THEN save_in_map(generate(st, BootLand(l, seed)), BootLand(l, seed))
    ELSE st

\* a cartridge saved by an earlier session: a booted 1x1 terrain
SavedCart ==
    LET l == NewLand(1, 1, LAND_TEXTURE)
    IN  BootStore(save_in_map(EmptyStore, l), l, 1)

\* a cartridge whose header marks a generated terrain as covered
CoveredCart(width, height) ==
    LET l == [NewLand(width, height, LAND_TEXTURE) EXCEPT !.seed = 16909060, !.covered = TRUE]
    IN  generate(save_in_map(EmptyStore, l), l)

\* the state after LAND's construction in lib.rs: from_map_or_new on a cartridge
Built(cart, d, texture) ==
    /\ land = FromMapOrNewLand(cart, d[1], d[2], texture)
    /\ store = FromMapOrNewStore(cart, d[1], d[2], texture)

\* the state after construction and boot()
Booted(cart, d, texture, seed) ==
    LET l == FromMapOrNewLand(cart, d[1], d[2], texture)
        st == FromMapOrNewStore(cart, d[1], d[2], texture)
    IN  /\ land = BootLand(l, seed)
        /\ store = BootStore(st, l, seed)

NoHistory ==
    /\ prevStore = store
    /\ prevLand = land
    /\ op = Op("init", 0, 0, 0, FALSE)
    /\ prevOp = op
    /\ steps = 0

(***************************************************************************)
(* Operations                                                              *)
(***************************************************************************)
New(width, height, texture) ==
    /\ NewAccepts(width, height)
    /\ land' = NewLand(width, height, texture)
    /\ store' = save_in_map(store, land')
    /\ Step(Op("new", width, height, 0, FALSE))

FromMap ==
    /\ land' = from_map(store)
    /\ store' = store
    /\ Step(Op("from_map", 0, 0, 0, FALSE))

\* op.s records whether the fallback to Land::new was taken
FromMapOrNew(width, height, texture) ==
    /\ MapInvalid(store) => NewAccepts(width, height)
    /\ land' = FromMapOrNewLand(store, width, height, texture)
    /\ store' = FromMapOrNewStore(store, width, height, texture)
    /\ Step(Op("from_map_or_new", width, height, 0, MapInvalid(store)))

SaveInMap ==
    /\ store' = save_in_map(store, land)
    /\ land' = land
    /\ Step(Op("save_in_map", 0, 0, 0, FALSE))

Set(x, y, state) ==
    /\ store' = set(store, land, x, y, state)
    /\ land' = land
    /\ Step(Op("set", x, y, 0, state))

SetCircle(x, y, r, state) ==
    /\ store' = set_circle(store, land, x, y, r, state)
    /\ land' = land
    /\ Step(Op("set_circle", x, y, r, state))

Clear ==
    /\ store' = clear(store, land)
    /\ land' = land
    /\ Step(Op("clear", 0, 0, 0, FALSE))

SetSeed(seed) ==
    /\ land' = [land EXCEPT !.seed = seed]
    /\ store' = store
    /\ Step(Op("set_seed", seed, 0, 0, FALSE))

Generate ==
    /\ store' = generate(store, land)
    /\ land' = land
    /\ Step(Op("generate", 0, 0, 0, FALSE))

\* lib.rs, button B: mset(0, 0, 0); mset(1, 0, 0)
EraseSave ==
    /\ store' = mset(mset(store, 0, 0, 0), 1, 0, 0)
    /\ land' = land
    /\ Step(Op("erase_save", 0, 0, 0, FALSE))

(***************************************************************************)
(* Spec: the life cycle of a terrain, every operation of Land              *)
(***************************************************************************)
\* operations per run
MaxSteps == 3

\* (width, height) of the terrains built at start, and handed to Land::new later
Dims == {<<1, 1>>, <<1, 2>>, <<1, 3>>, <<0, 256>>}

NewDims == {<<1, 2>>}

Init ==
    /\ \/ \E d \in Dims : Built(EmptyStore, d, LAND_TEXTURE)
       \/ Built(EmptyStore, <<1, 2>>, WideTexture)
       \/ Built(SavedCart, <<1, 1>>, LAND_TEXTURE)
       \/ Built(CoveredCart(1, 2), <<1, 1>>, LAND_TEXTURE)
       \/ \E seed \in Seeds : Booted(EmptyStore, <<1, 2>>, LAND_TEXTURE, seed)
    /\ NoHistory

CanStep == steps < MaxSteps

Next ==
    \/ \E d \in NewDims : CanStep /\ New(d[1], d[2], LAND_TEXTURE)
    \/ CanStep /\ FromMap
    \/ CanStep /\ FromMapOrNew(1, 1, LAND_TEXTURE)
    \/ CanStep /\ SaveInMap
    \/ \E s \in BOOLEAN : CanStep /\ Set(3, 5, s)
    \/ \E s \in BOOLEAN : CanStep /\ SetCircle(4, 4, 2, s)
    \/ CanStep /\ Clear
    \/ \E seed \in Seeds : CanStep /\ SetSeed(seed)
    \/ CanStep /\ Generate
    \/ CanStep /\ EraseSave

Spec == Init /\ [][Next]_vars

(***************************************************************************)
(* SpecEdit: the pixel editor, set and set_circle on terrains with content *)
(***************************************************************************)
\* edits per run
MaxEdits == 1

\* set_circle radii are 0 .. MaxRadius
MaxRadius == 2

\* pixels handed to set: inside or outside, depending on the terrain
EditPixels ==
    {<<0, 0>>, <<7, 7>>, <<9, 3>>, <<3, 12>>, <<15, 15>>,
     <<-1, 0>>, <<5, -8>>, <<16, 2>>, <<2, 16>>, <<8, 8>>}

\* centres handed to set_circle
Centres == {<<4, 4>>, <<0, 7>>, <<8, 9>>}

InitEdit ==
    /\ \/ \E d \in {<<1, 1>>, <<2, 2>>} : Built(EmptyStore, d, LAND_TEXTURE)
       \/ Built(SavedCart, <<1, 1>>, LAND_TEXTURE)
       \/ Built(CoveredCart(2, 2), <<1, 1>>, LAND_TEXTURE)
       \/ \E seed \in Seeds : Booted(EmptyStore, <<2, 2>>, LAND_TEXTURE, seed)
    /\ NoHistory

CanEdit == steps < MaxEdits

NextEdit ==
    \/ \E p \in EditPixels, s \in BOOLEAN : CanEdit /\ Set(p[1], p[2], s)
    \/ \E c \in Centres, r \in 0 .. MaxRadius, s \in BOOLEAN :
          CanEdit /\ SetCircle(c[1], c[2], r, s)

SpecEdit == InitEdit /\ [][NextEdit]_vars

(***************************************************************************)
(* SpecMask: set_mask and get_mask on the chunks of a fresh 2x1 terrain    *)
(***************************************************************************)
Masks ==
    {ZeroMask, FullMask,
     <<0, 0, 0, 0, 0, 0, 0, 1>>, <<128, 0, 0, 0, 0, 0, 0, 0>>,
     <<1, 2, 3, 4, 5, 6, 7, 8>>, <<1, 0, 0, 0, 0, 0, 0, 1>>}

MaskPixels == {<<0, 0>>, <<8, 0>>}

InitMask ==
    /\ Built(EmptyStore, <<2, 1>>, LAND_TEXTURE)
    /\ NoHistory

SetMask(x, y, mask) ==
    /\ chunk(land, x, y).some
    /\ store' = ChunkSetMask(store, chunk(land, x, y), mask)
    /\ land' = land
    /\ op' = [Op("set_mask", x, y, 0, FALSE) EXCEPT !.mask = mask]
    /\ prevOp' = op
    /\ UNCHANGED <<prevStore, prevLand, steps>>

GetMask(x, y) ==
    /\ chunk(land, x, y).some
    /\ op' = [Op("get_mask", x, y, 0, FALSE) EXCEPT
                 !.mask = ChunkGetMask(store, chunk(land, x, y))]
    /\ prevOp' = op
    /\ UNCHANGED <<store, land, prevStore, prevLand, steps>>

NextMask ==
    \/ \E p \in MaskPixels, m \in Masks : SetMask(p[1], p[2], m)
    \/ \E p \in MaskPixels : GetMask(p[1], p[2])

SpecMask == InitMask /\ [][NextMask]_vars

(***************************************************************************)
(* SpecLayout: Land::new on dimensions of every kind, and Land::chunk on   *)
(* pixels at the corners and chunk borders of the terrain                  *)
(***************************************************************************)
\* small dimensions are 0 .. MaxSmallDim
MaxSmallDim == 2

\* (width, height) handed to Land::new: small, row-wrapping, the program's own
\* 45x24, the largest that fit, too large, negative, and beyond the i32 range
LayoutDims ==
    ((0 .. MaxSmallDim) \X (0 .. MaxSmallDim)) \cup
    {<<30, 1>>, <<29, 2>>, <<45, 24>>, <<4078, 1>>, <<1, 4078>>, <<255, 15>>,
     <<256, 1>>, <<4079, 1>>, <<46, 100>>, <<-1, 3>>, <<3, -1>>, <<-1, -1>>,
     <<65536, 8192>>, <<8192, 65536>>, <<65536, 65536>>}

\* the pixel coordinates probed on an axis of n chunks
ProbeCoords(n) ==
    {-1, 0, 7, 8, MulI32(n, 8) - 8, MulI32(n, 8) - 1, MulI32(n, 8)}

Probe(x, y) ==
    /\ op' = [Op("chunk", x, y, 0, FALSE) EXCEPT !.ret = chunk(land, x, y)]
    /\ UNCHANGED <<store, land, prevOp, prevStore, prevLand, steps>>

LayoutNew(width, height) ==
    /\ NewAccepts(width, height)
    /\ land' = NewLand(width, height, LAND_TEXTURE)
    /\ store' = save_in_map(store, land')
    /\ op' = Op("new", width, height, 0, FALSE)
    /\ UNCHANGED <<prevOp, prevStore, prevLand, steps>>

InitLayout ==
    /\ Built(EmptyStore, <<45, 24>>, LAND_TEXTURE)
    /\ NoHistory

NextLayout ==
    \/ \E d \in LayoutDims : LayoutNew(d[1], d[2])
    \/ \E x \in ProbeCoords(land.width), y \in ProbeCoords(land.height) : Probe(x, y)

SpecLayout == InitLayout /\ [][NextLayout]_vars

(***************************************************************************)
(* The vocabulary of the properties, in exact integers                     *)
(***************************************************************************)
\* (x, y) is a pixel of the terrain
Inside(l, x, y) == x >= 0 /\ x < 8 * l.width /\ y >= 0 /\ y < 8 * l.height

\* the pixels of a terrain
Pixels(l) == (0 .. (8 * l.width - 1)) \X (0 .. (8 * l.height - 1))

\* the pixel of the last operation
OpPixel == <<op.x, op.y>>

\* width * height * 8 + 16 <= 32640 over the integers, for dimensions >= 0
FitsBudget(width, height) ==
    /\ width >= 0
    /\ height >= 0
    /\ \/ width = 0
       \/ height = 0
       \/ /\ width <= (MAP_SIZE - LAND_CHUNK_ADDR_RESERVE) \div 8
          /\ height <= ((MAP_SIZE - LAND_CHUNK_ADDR_RESERVE) \div 8) \div width

\* the fields of a terrain fit the width of their header cells
FitsHeader(l) ==
    /\ l.width \in 0 .. 255
    /\ l.height \in 0 .. 255
    /\ l.texture.spr_id \in 0 .. 255
    /\ l.texture.width \in 0 .. 15
    /\ l.texture.height \in 0 .. 15

\* the 8 cells of a chunk
ChunkCells(ch) == {<<ch.map_x + i, ch.map_y>> : i \in 0 .. 7}

\* the cells of the chunk at grid coordinates c of the terrain in hand
CellsAt(c) == ChunkCells(chunk(land, 8 * c[1], 8 * c[2]))

\* the chunk grid of the terrain in hand
Grid == (0 .. (land.width - 1)) \X (0 .. (land.height - 1))

HeaderCells == {<<i, 0>> : i \in 0 .. 8}

\* the rows of column x that are set
ColumnRows(x) == {y \in 0 .. (8 * land.height - 1) : get(store, land, x, y)}

(***************************************************************************)
(* Properties                                                              *)
(***************************************************************************)
JustLoadedAfterSave == op.kind = "from_map" /\ prevOp.kind = "save_in_map"

\* the loaded terrain (land, store) equals the saved one (prevLand, prevStore)
SameTerrain ==
    /\ land.width = prevLand.width
    /\ land.height = prevLand.height
    /\ land.seed = prevLand.seed
    /\ land.covered = prevLand.covered
    /\ land.texture = prevLand.texture
    /\ \A p \in Pixels(prevLand) :
          get(store, land, p[1], p[2]) = get(prevStore, prevLand, p[1], p[2])

\* C1: set_mask(m) and then get_mask() on the same chunk returns m, for every
\* mask m and every chunk.
MaskRoundTrip ==
    (op.kind = "get_mask" /\ prevOp.kind = "set_mask"
        /\ op.x = prevOp.x /\ op.y = prevOp.y)
    => op.mask = prevOp.mask

\* C2: after set_circle(cx, cy, r, true) every in-bounds pixel at an offset
\* (i, j) with i*i + j*j <= r*r is set, and every pixel outside the bounding
\* square of the circle keeps its value.
CircleSetsDisc ==
    (op.kind = "set_circle" /\ op.s)
    => /\ \A i \in (-op.r) .. op.r, j \in (-op.r) .. op.r :
             (i * i + j * j <= op.r * op.r /\ Inside(land, op.x + i, op.y + j))
             => get(store, land, op.x + i, op.y + j)
       /\ \A p \in Pixels(land) :
             (p[1] < op.x - op.r \/ p[1] > op.x + op.r
                 \/ p[2] < op.y - op.r \/ p[2] > op.y + op.r)
             => get(store, land, p[1], p[2]) = get(prevStore, land, p[1], p[2])

\* C3, as stated: save_in_map followed by from_map yields a terrain with the
\* same width, height, seed, covered flag, texture and pixels, for every
\* terrain Land::new accepts.
SaveLoadRoundTripAnyLand == JustLoadedAfterSave => SameTerrain

\* C3, amended: save_in_map followed by from_map yields a terrain with the same
\* width, height, seed, covered flag, texture and pixels, when the width and
\* height are in 0..255, the texture's spr_id in 0..255 and the texture's width
\* and height in 0..15.
SaveLoadRoundTrip == (JustLoadedAfterSave /\ FitsHeader(prevLand)) => SameTerrain

SaveLoadRoundTripWitness ==
    /\ JustLoadedAfterSave
    /\ FitsHeader(prevLand)
    /\ prevLand.seed > 65535
    /\ prevLand.height >= 2
    /\ \E p \in Pixels(prevLand) : get(prevStore, prevLand, p[1], p[2])

\* C4: a terrain produced by Land::new, directly or through the fallback of
\* from_map_or_new, has seed 0 and no pixel set, whatever was written to the
\* store before.
FreshLandIsEmpty ==
    (op.kind = "new" \/ (op.kind = "from_map_or_new" /\ op.s))
    => /\ land.seed = 0
       /\ \A p \in Pixels(land) : ~get(store, land, p[1], p[2])

\* C5: when width * height * 8 + 16 <= 32640, the cells of two distinct chunks
\* of the grid are disjoint: the grid's chunks cover 8 cells each, and as many
\* cells together; on the grids of up to 64 chunks every pair is compared.
\* The formula reads the terrain only, and is evaluated where one was built.
ChunksDisjoint ==
    (op.kind # "chunk" /\ FitsBudget(land.width, land.height))
    => /\ Cardinality(UNION {CellsAt(c) : c \in Grid}) = 8 * Cardinality(Grid)
       /\ Cardinality(Grid) <= 64
          => \A c \in Grid, d \in Grid : c # d => CellsAt(c) \cap CellsAt(d) = {}

ChunksDisjointWitness ==
    /\ op.kind = "new"
    /\ land.width = 45
    /\ land.height = 24
    /\ chunk(land, 0, 0) = LandChunk(16, 0)
    /\ chunk(land, 359, 191) = LandChunk(8, 36)

\* C6: after set(x, y, s) on an in-bounds pixel, get(x, y) returns s and every
\* other in-bounds pixel has the value it had before.
SetThenGet ==
    (op.kind = "set" /\ Inside(land, op.x, op.y))
    => /\ get(store, land, op.x, op.y) = op.s
       /\ \A p \in Pixels(land) \ {OpPixel} :
             get(store, land, p[1], p[2]) = get(prevStore, land, p[1], p[2])

SetThenGetWitness ==
    /\ op.kind = "set"
    /\ Inside(land, op.x, op.y)
    /\ land.width = 2
    /\ op.y >= 8
    /\ get(prevStore, land, op.x, op.y) # op.s
    /\ \E p \in Pixels(land) \ {OpPixel} : get(store, land, p[1], p[2])

\* C7: for a pixel outside the bounds, negative coordinates included, get
\* returns the covered flag and set leaves every store cell unchanged.
OutOfBoundsIgnored ==
    /\ \A p \in EditPixels :
          ~Inside(land, p[1], p[2]) => get(store, land, p[1], p[2]) = land.covered
    /\ (op.kind = "set" /\ ~Inside(land, op.x, op.y)) => store = prevStore

OutOfBoundsIgnoredWitness ==
    /\ op.kind = "set"
    /\ op.s
    /\ OpPixel = <<16, 2>>
    /\ land.width = 2
    /\ land.covered
    /\ get(store, land, 16, 2)
    /\ ~get(store, land, 15, 2)

\* C8: after generate() the pixels are those generate() gives a terrain of the
\* same width, height and seed on an empty store, whatever they were before.
GenerateIgnoresPast ==
    op.kind = "generate"
    => LET fresh == generate(EmptyStore, land)
       IN  \A p \in Pixels(land) :
              get(store, land, p[1], p[2]) = get(fresh, land, p[1], p[2])

GenerateIgnoresPastWitness ==
    /\ op.kind = "generate"
    /\ prevOp.kind = "set_circle"
    /\ \E p \in Pixels(land) :
          get(prevStore, land, p[1], p[2]) /\ ~get(store, land, p[1], p[2])

\* C9, as stated: after generate() on a terrain with height >= 2 no pixel with
\* y >= water_height - 2 is set, and every column is set exactly on the rows
\* y_start <= y < water_height - 2 for some 0 <= y_start <= water_height - 3.
GeneratedAboveWater ==
    (op.kind = "generate" /\ land.height >= 2)
    => /\ \A p \in Pixels(land) :
             p[2] >= land.water_height - 2 => ~get(store, land, p[1], p[2])
       /\ \A x \in 0 .. (8 * land.width - 1) :
             \E y_start \in 0 .. (land.water_height - 3) :
                ColumnRows(x) = y_start .. (land.water_height - 3)

\* C9, amended: after generate() on a terrain with height >= 2 every column is
\* set exactly on the rows y_start <= y < height * 8 for some
\* 0 <= y_start <= water_height - 2: a solid run down to the last row of the
\* terrain, so every pixel with y >= water_height - 2 is set.
GeneratedColumnsSolid ==
    (op.kind = "generate" /\ land.height >= 2)
    => \A x \in 0 .. (8 * land.width - 1) :
          \E y_start \in 0 .. (land.water_height - 2) :
             ColumnRows(x) = y_start .. (8 * land.height - 1)

GeneratedColumnsSolidWitness ==
    /\ op.kind = "generate"
    /\ land.height >= 2
    /\ land.width >= 1
    /\ ~get(store, land, 0, land.water_height - 3)
    /\ get(store, land, 0, land.water_height - 2)
    /\ \E x \in 1 .. (8 * land.width - 1) : get(store, land, x, land.water_height - 3)

\* C10: for every width and height Land::new accepts and every in-bounds pixel,
\* the 8 cells of the owning chunk lie inside the store (map_x + 7 <= 239,
\* map_y <= 135) and none of them is a header cell (0,0)..(8,0).
ChunkCellsInStore ==
    (op.kind = "chunk" /\ op.ret.some)
    => /\ op.ret.map_x >= 0
       /\ op.ret.map_x + 7 <= MAP_WIDTH - 1
       /\ op.ret.map_y >= 0
       /\ op.ret.map_y <= MAP_HEIGHT - 1
       /\ ChunkCells(op.ret) \cap HeaderCells = {}

\* the same, for the dimensions that satisfy the size bound over the integers
ChunkCellsInStoreWithinBudget ==
    FitsBudget(land.width, land.height) => ChunkCellsInStore

\* set, set_circle, clear and generate leave the header cells as they were
HeaderKept ==
    op.kind \in {"set", "set_circle", "clear", "generate"}
    => \A c \in HeaderCells : mget(store, c[1], c[2]) = mget(prevStore, c[1], c[2])

====
